---- MODULE Spec2Model ----
(***************************************************************************)
(* A model of the MM010 NRC banknote dispenser driver (mm010_nrc_api.go):  *)
(* the connection object, the request encoder, the bounded read loops, the *)
(* frame parser, the ACK / data / ACK / EOT response cycle and the command *)
(* surface built on them, run against a serial device that answers a       *)
(* request with arbitrary (well-formed or malformed) bytes.                *)
(*                                                                         *)
(* Bytes are naturals in 0..255; byte slices are sequences (1-based, so    *)
(* Go's buf[i] is buf[i+1] here).  One action is one transport operation   *)
(* of the driver together with all the code that runs up to the next one.  *)
(***************************************************************************)
EXTENDS Naturals, Sequences, FiniteSets

(***************************************************************************)
(* Protocol constants                                                      *)
(***************************************************************************)
RequestStart == 4
ResponseStart == 1
CommunicationIdentify == 48
TextStart == 2
TextEnd == 3

ErrorResponse == 0
AckResponse == 6
NackResponse == 21
EotResponse == 4

\* the iteration ceiling of both read loops
maxReadCount == 1050
\* the size of innerBuf, the most one transport read can deliver
innerBufLen == 256
\* the +0x20 / -0x20 offset of numeric fields
Offset == 32

(***************************************************************************)
(* Bounds of the model                                                     *)
(***************************************************************************)
\* longest text between TextStart and TextEnd the device puts in a frame
MaxBody == 5
\* zero-byte (timeout) reads may hit the first MaxTimeouts iterations of a
\* read loop while bytes are still on their way
MaxTimeouts == 1
\* bytes of the data frame that may arrive in the same read as a code byte
\* (beyond that, the read delivers everything the device has sent)
MaxOverRead == 2

(***************************************************************************)
(* Byte arithmetic                                                         *)
(***************************************************************************)
RECURSIVE XorBits(_, _, _)
XorBits(a, b, n) ==
    IF n = 0 THEN 0
    ELSE (((a % 2) + (b % 2)) % 2) + 2 * XorBits(a \div 2, b \div 2, n - 1)

\* ^ on two half bytes, tabulated
XorNibble == [a \in 0..15 |-> [b \in 0..15 |-> XorBits(a, b, 4)]]

\* Go's ^ on two bytes
Xor(a, b) == 16 * XorNibble[a \div 16][b \div 16] + XorNibble[a % 16][b % 16]

\* Go's x & (1 << k) != 0
BitSet(x, k) == (x \div (2 ^ k)) % 2 = 1

\* byte subtraction and addition wrap around
SubByte(a, b) == (a + 256 - b) % 256
AddByte(a, b) == (a + b) % 256

Min(a, b) == IF a < b THEN a ELSE b

\* Go's s[from:] on a 1-based sequence (from is the 0-based index)
SliceFrom(s, from) == SubSeq(s, from + 1, Len(s))

(***************************************************************************)
(* getChecksum: XOR of all bytes, left to right                            *)
(***************************************************************************)
RECURSIVE ChecksumLoop(_, _, _)
ChecksumLoop(data, i, chksum) ==
    IF i > Len(data) THEN chksum
    ELSE ChecksumLoop(data, i + 1, Xor(chksum, data[i]))

\* getChecksum with the first byte left out
getChecksumSkipFirst(data) == ChecksumLoop(data, 2, 0)

getChecksum(data) == ChecksumLoop(data, 1, 0)

(***************************************************************************)
(* sendRequest: the request frame                                          *)
(***************************************************************************)
\* RequestStart, CommunicationIdentify, TextStart, commandCode, the data,
\* TextEnd, and the checksum of all that
RequestFrame(commandCode, bytesData) ==
    LET body == <<RequestStart, CommunicationIdentify, TextStart, commandCode>>
                    \o bytesData \o <<TextEnd>>
    IN  body \o <<getChecksum(body)>>

(***************************************************************************)
(* readRespData, after the loop: validation and trimming of the            *)
(* accumulated buffer.  The result is [err, data]; err = "" is Go's nil    *)
(* error and err = "panic" a run-time panic (index or slice out of range). *)
(***************************************************************************)
ErrFormat == "Response format invalid"
ErrChecksum == "Response verification failed"
ErrTries == "Reads tries exceeded"
ErrNotAck == "Response not ACK"
ErrNotEot == "Response not EOT"
ErrClosed == "serial port is closed"
ErrIllegal == "illegal command"
ErrAlreadyOpened == "port already opened"
ErrNotOpened == "port not opened"
\* an error of the serial library (read, write, open or close failed)
ErrIo == "io error"
Panic == "panic"

Fail(e) == [err |-> e, data |-> <<>>]

\* ParseRespData returning everything after TextStart (buf[3 : len(buf)-1])
ParseRespDataKeepAll(buf0) ==
    IF buf0[1] # ResponseStart \/ buf0[2] # CommunicationIdentify
    THEN Fail(ErrFormat)
    ELSE LET crc == buf0[Len(buf0)]
             buf == SubSeq(buf0, 1, Len(buf0) - 1)
         IN  IF crc # getChecksum(buf) THEN Fail(ErrChecksum)
             ELSE IF Len(buf) < 3 THEN Fail(Panic)
             ELSE IF buf[3] # TextStart \/ buf[Len(buf)] # TextEnd
             THEN Fail(ErrFormat)
             ELSE [err |-> "", data |-> SubSeq(buf, 4, Len(buf) - 1)]

\* ParseRespData without the test of buf[0] and buf[1]
ParseRespDataNoHeaderCheck(buf0) ==
    LET crc == buf0[Len(buf0)]
        buf == SubSeq(buf0, 1, Len(buf0) - 1)
    IN  IF crc # getChecksum(buf) THEN Fail(ErrChecksum)
        ELSE IF Len(buf) < 3 THEN Fail(Panic)
        ELSE IF buf[3] # TextStart \/ buf[Len(buf)] # TextEnd
        THEN Fail(ErrFormat)
        ELSE IF Len(buf) - 1 < 4 THEN Fail(Panic)
        ELSE [err |-> "", data |-> SubSeq(buf, 5, Len(buf) - 1)]


\* ParseRespData testing TextStart and TextEnd before the checksum
ParseRespDataMarkersFirst(buf0) ==
    IF buf0[1] # ResponseStart \/ buf0[2] # CommunicationIdentify
    THEN Fail(ErrFormat)
    ELSE LET crc == buf0[Len(buf0)]
             buf == SubSeq(buf0, 1, Len(buf0) - 1)
         IN  IF Len(buf) < 3 THEN Fail(Panic)
             ELSE IF buf[3] # TextStart \/ buf[Len(buf)] # TextEnd
             THEN Fail(ErrFormat)
             ELSE IF crc # getChecksum(buf) THEN Fail(ErrChecksum)
             ELSE IF Len(buf) - 1 < 4 THEN Fail(Panic)
             ELSE [err |-> "", data |-> SubSeq(buf, 5, Len(buf) - 1)]

ParseRespData(buf0) ==
    IF buf0[1] # ResponseStart \/ buf0[2] # CommunicationIdentify
    THEN Fail(ErrFormat)
    ELSE LET crc == buf0[Len(buf0)]
             buf == SubSeq(buf0, 1, Len(buf0) - 1)
         IN  IF crc # getChecksum(buf) THEN Fail(ErrChecksum)
             \* buf[2] of a two-byte slice
             ELSE IF Len(buf) < 3 THEN Fail(Panic)
             ELSE IF buf[3] # TextStart \/ buf[Len(buf)] # TextEnd
             THEN Fail(ErrFormat)
             \* buf[4 : len(buf)-1] with len(buf)-1 < 4
             ELSE IF Len(buf) - 1 < 4 THEN Fail(Panic)
             ELSE [err |-> "", data |-> SubSeq(buf, 5, Len(buf) - 1)]

\* the loop's exit test: len(buf) > 2 && buf[len(buf)-2] == TextEnd
LastRead(buf) == Len(buf) > 2 /\ buf[Len(buf) - 1] = TextEnd

\* readRespCode, after the loop: the response type of the first byte
RespType(b) ==
    IF b = 6 THEN AckResponse
    ELSE IF b = 21 THEN NackResponse
    ELSE IF b = 4 THEN EotResponse
    ELSE ErrorResponse

(***************************************************************************)
(* The command surface: command code, request data and response decoding   *)
(* of each operation.  A call is [op, count, item, text].                  *)
(***************************************************************************)
TripleOps == {"Dispense", "TestDispense", "LastStatus", "DoubleDetectDiagnostics",
              "SensorDiagnostics", "SingleNoteDispense", "SingleNoteEject"}

CycleOps == TripleOps \cup {"Status", "Purge", "ConfigurationStatus", "TestMode",
                            "ReadData", "WriteData"}

CommandOps == CycleOps \cup {"Reset"}

CommandCode(op) ==
    CASE op = "Status" -> 64
      [] op = "Purge" -> 65
      [] op = "Dispense" -> 66
      [] op = "TestDispense" -> 67
      [] op = "Reset" -> 68
      [] op = "LastStatus" -> 69
      [] op = "ConfigurationStatus" -> 70
      [] op = "DoubleDetectDiagnostics" -> 71
      [] op = "SensorDiagnostics" -> 72
      [] op = "SingleNoteDispense" -> 74
      [] op = "SingleNoteEject" -> 75
      [] op = "TestMode" -> 84
      [] op = "ReadData" -> 82
      [] op = "WriteData" -> 87

RECURSIVE Digits(_)
Digits(n) == IF n < 10 THEN <<48 + n>> ELSE Digits(n \div 10) \o <<48 + (n % 10)>>

\* fmt.Sprintf("%3d", item): decimal, padded with spaces on the left to width 3
Sprintf3d(item) ==
    LET d == Digits(item)
    IN  IF Len(d) >= 3 THEN d
        ELSE IF Len(d) = 2 THEN <<32>> \o d
        ELSE <<32, 32>> \o d

\* the data bytes each command hands to sendRequest ('D' = 68, '/' = 47)
RequestData(c) ==
    CASE c.op \in {"Dispense", "TestDispense"} -> <<AddByte(c.count, Offset)>>
      [] c.op = "ReadData" ->
            <<68, 47>> \o Sprintf3d(c.item)
                \o (IF Len(c.text) > 0 THEN <<47>> \o c.text ELSE <<>>)
      [] c.op = "WriteData" -> <<68, 47>> \o Sprintf3d(c.item) \o <<47>> \o c.text
      [] OTHER -> <<>>

Bit(x, k) == IF BitSet(x, k) THEN 1 ELSE 0

Ok(v) == [err |-> "", val |-> v]
Err(e) == [err |-> e, val |-> <<>>]

\* Decode without the -0x20 of the numeric fields
DecodeNoOffset(op, response) ==
    IF Len(response) < 3 THEN Err(Panic)
    ELSE Ok(<<response[1], response[2], response[3]>>)

\* what a command makes of the payload readResponse returned; response[i]
\* beyond the payload's length is an index-out-of-range panic
Decode(op, response) ==
    CASE op = "Status" ->
            IF Len(response) < 4 THEN Err(Panic)
            ELSE Ok(<<Bit(response[1], 0), Bit(response[1], 1), Bit(response[1], 3),
                      Bit(response[1], 4), Bit(response[2], 4),
                      SubByte(response[3], Offset), SubByte(response[4], Offset)>>)
      [] op = "Purge" ->
            IF Len(response) < 2 THEN Err(Panic)
            ELSE Ok(<<response[1], SubByte(response[2], Offset)>>)
      [] op \in TripleOps ->
            IF Len(response) < 3 THEN Err(Panic)
            ELSE Ok(<<response[1], SubByte(response[2], Offset),
                      SubByte(response[3], Offset)>>)
      [] op = "ConfigurationStatus" ->
            IF Len(response) < 2 THEN Err(Panic)
            ELSE Ok(<<SubByte(response[1], Offset), SubByte(response[2], Offset)>>)
      [] op = "TestMode" ->
            IF Len(response) < 1 THEN Err(Panic) ELSE Ok(<<response[1]>>)
      [] op = "ReadData" ->
            IF Len(response) < 1 THEN Err(Panic)
            ELSE IF response[1] # 48 THEN Err(ErrIllegal)
            ELSE Ok(SliceFrom(response, 1))
      [] op = "WriteData" ->
            IF Len(response) < 1 THEN Err(Panic)
            ELSE IF response[1] # 48 THEN Err(ErrIllegal)
            ELSE Ok(<<>>)

(***************************************************************************)
(* The device at the other end of the serial line.  It answers a request   *)
(* with a code byte and a data frame, and the driver's acknowledgment      *)
(* with a second code byte; any of these may be missing or malformed.      *)
(***************************************************************************)
\* the text (command echo and result bytes) the device may put in a frame
BodySeeds == {<<66, 32, 33, 34, 35, 36, 37>>, <<32, 33, 34>>,
              <<82, 48, 49, 50>>, <<66, 3, 35>>}

Bodies == {SubSeq(s, 1, Min(k, Len(s))) : s \in BodySeeds, k \in 0..MaxBody}

\* well-formed header, wrong TextStart, wrong ResponseStart
Headers == {<<ResponseStart, CommunicationIdentify, TextStart>>,
            <<ResponseStart, CommunicationIdentify, 32>>,
            <<TextStart, CommunicationIdentify, TextStart>>}

\* the protocol's checksum, bit by bit: bit k of the result is the parity of
\* the number of bytes that have bit k set
ParityBit(bytes, k) ==
    IF Cardinality({i \in DOMAIN bytes : BitSet(bytes[i], k)}) % 2 = 1 THEN 2 ^ k ELSE 0

XorOf(bytes) ==
    ParityBit(bytes, 0) + ParityBit(bytes, 1) + ParityBit(bytes, 2) + ParityBit(bytes, 3)
        + ParityBit(bytes, 4) + ParityBit(bytes, 5) + ParityBit(bytes, 6)
        + ParityBit(bytes, 7)

DeviceFrame(h, body, goodChk) ==
    LET pre == h \o body \o <<TextEnd>>
    IN  pre \o <<IF goodChk THEN XorOf(pre) ELSE AddByte(XorOf(pre), 1)>>

CanonBody == <<66, 32, 33, 34>>

GoodHeader == <<ResponseStart, CommunicationIdentify, TextStart>>

CanonFrame == DeviceFrame(GoodHeader, CanonBody, TRUE)

\* every body in a well-formed frame, and the canonical body in every
\* malformed one
Frames ==
    {DeviceFrame(GoodHeader, b, TRUE) : b \in Bodies}
    \cup {DeviceFrame(h, CanonBody, g) : h \in Headers, g \in BOOLEAN}

\* frames the device stops sending half way
TruncFrames == {SubSeq(CanonFrame, 1, k) : k \in {0, 6}}

\* the code bytes the device may send: ACK, NACK, EOT, something else
CodeBytes == {AckResponse, NackResponse, EotResponse, 32}

\* what the device may send in answer to a request
Replies ==
    {<<>>}
    \cup {<<c>> \o f : c \in CodeBytes \ {AckResponse}, f \in {<<>>, CanonFrame}}
    \cup {CanonFrame}
    \cup {<<AckResponse>> \o f : f \in Frames \cup TruncFrames}

\* what the device may send once the driver has acknowledged the data frame
\* b: a code byte, or (after the canonical frame) nothing at all
Closings(b) ==
    {<<c>> : c \in CodeBytes} \cup (IF b = CanonFrame THEN {<<>>} ELSE {})

\* the calls the application makes
Counts == {1, 224}
Items == <<101, 7>>
Texts == <<<<>>, <<49>>>>

NoCall == [op |-> "none", count |-> 0, item |-> 0, text |-> <<>>]

Calls ==
    {[op |-> o, count |-> 0, item |-> 0, text |-> <<>>] :
        o \in CommandOps \ {"Dispense", "TestDispense", "ReadData", "WriteData"}}
    \cup {[op |-> "Dispense", count |-> c, item |-> 0, text |-> <<>>] : c \in Counts}
    \cup {[op |-> "TestDispense", count |-> 1, item |-> 0, text |-> <<>>]}
    \cup {[op |-> "ReadData", count |-> 0, item |-> Items[k], text |-> Texts[k]] :
            k \in 1..2}
    \cup {[op |-> "WriteData", count |-> 0, item |-> 101, text |-> <<49>>]}

(***************************************************************************)
(* State                                                                   *)
(***************************************************************************)
VARIABLES
    config,          \* MMDispenser.config: "nil" or "set"
    open,            \* MMDispenser.open
    port,            \* MMDispenser.port: "nil", "open" (a live handle), "closed"
    pc,              \* where the running call is: "idle", "code1", "data",
                     \* "ack", "code2", "done"
    call,            \* the running call
    readTriesCount,  \* readTriesCount of the read loop in progress
    buf,             \* buf of the read loop in progress
    data,            \* data in readResponse: the parsed payload
    wire,            \* bytes the device has sent and the driver has not read
    sent,            \* the transport writes sendRequest made in this call
    trace,           \* the steps of the response cycle in this call, in order
    cycle,           \* readResponse in this call: "none", "running", "ok", or its error
    result,          \* what the call returned: [err, val]
    other            \* the locals of a second invocation that is not running now

vars == <<config, open, port, pc, call, readTriesCount, buf, data, wire, sent, trace,
          cycle, result, other>>

NoResult == [err |-> "-", val |-> <<>>]

\* the state of a freshly built MMDispenser / of a finished call
Quiet ==
    /\ pc = "idle"
    /\ call = NoCall
    /\ readTriesCount = 0
    /\ buf = <<>>
    /\ data = <<>>
    /\ wire = <<>>
    /\ sent = <<>>
    /\ trace = <<>>
    /\ cycle = "none"
    /\ result = NoResult

\* the locals of an invocation that has not started
IdleLocals ==
    [pc |-> "idle", call |-> NoCall, readTriesCount |-> 0, buf |-> <<>>, data |-> <<>>,
     sent |-> <<>>, trace |-> <<>>, cycle |-> "none", result |-> NoResult]

\* NewConnection: the port opened, or serial.OpenPort failed
Init ==
    /\ Quiet
    /\ other = IdleLocals
    /\ \/ config = "set" /\ open = TRUE /\ port = "open"
       \/ config = "nil" /\ open = FALSE /\ port = "nil"

conn == <<config, open, port>>

Event(e, b, k) == [ev |-> e, bytes |-> b, ok |-> k]

\* the call returns r
Return(r) ==
    /\ pc' = "done"
    /\ result' = r

\* readResponse (or Reset's readRespCode) returns the error e, and so does the call
FailCycle(e) ==
    /\ cycle' = IF call.op = "Reset" THEN cycle ELSE e
    /\ Return(Err(e))

\* Invoke under a lock that a command holds until it has returned
InvokeSerialized(c) ==
    /\ other.pc \in {"idle", "done"}
    /\ pc = "idle"
    /\ c \in Calls
    /\ call' = c
    /\ IF ~open
       THEN \* "serial port is closed", before anything is written
            /\ sent' = <<>>
            /\ wire' = wire
            /\ IF c.op = "ReadData"
               THEN /\ pc' = "code1"
                    /\ cycle' = "running"
                    /\ result' = result
               ELSE /\ cycle' = cycle
                    /\ Return(Err(ErrClosed))
       ELSE \E wok \in BOOLEAN :
            /\ sent' = <<[bytes |-> RequestFrame(CommandCode(c.op), RequestData(c)),
                          ok |-> wok]>>
            \* the device's answer follows what is already on the line
            /\ IF wok THEN wire' \in {wire \o r : r \in Replies} ELSE wire' = wire
            /\ IF wok \/ c.op = "ReadData"
               THEN /\ pc' = "code1"
                    /\ cycle' = IF c.op = "Reset" THEN cycle ELSE "running"
                    /\ result' = result
               ELSE /\ cycle' = cycle
                    /\ Return(Err(ErrIo))
    /\ UNCHANGED <<conn, readTriesCount, buf, data, trace, other>>

(***************************************************************************)
(* A command up to its first transport read: sendRequest.  Every command   *)
(* but ReadData returns sendRequest's error; ReadData drops it.            *)
(***************************************************************************)
Invoke(c) ==
    /\ pc = "idle"
    /\ c \in Calls
    /\ call' = c
    /\ IF ~open
       THEN \* "serial port is closed", before anything is written
            /\ sent' = <<>>
            /\ wire' = wire
            /\ IF c.op = "ReadData"
               THEN /\ pc' = "code1"
                    /\ cycle' = "running"
                    /\ result' = result
               ELSE /\ cycle' = cycle
                    /\ Return(Err(ErrClosed))
       ELSE \E wok \in BOOLEAN :
            /\ sent' = <<[bytes |-> RequestFrame(CommandCode(c.op), RequestData(c)),
                          ok |-> wok]>>
            \* the device's answer follows what is already on the line
            /\ IF wok THEN wire' \in {wire \o r : r \in Replies} ELSE wire' = wire
            /\ IF wok \/ c.op = "ReadData"
               THEN /\ pc' = "code1"
                    /\ cycle' = IF c.op = "Reset" THEN cycle ELSE "running"
                    /\ result' = result
               ELSE /\ cycle' = cycle
                    /\ Return(Err(ErrIo))
    /\ UNCHANGED <<conn, readTriesCount, buf, data, trace, other>>

(***************************************************************************)
(* port.Read, as the read loops see it                                     *)
(***************************************************************************)
\* ReadsAgain with > for >=
ReadsAgainOffByOne == readTriesCount + 1 <= maxReadCount

\* the loop iteration about to run makes a transport read
ReadsAgain == readTriesCount + 1 < maxReadCount

\* the read fails: a nil port panics, a closed handle or a line fault is an error
ReadFault ==
    IF port = "nil" THEN Panic ELSE ErrIo

CanFault ==
    \/ port # "open"
    \/ readTriesCount + 1 <= MaxTimeouts + 1

\* a read on a live handle may time out with no bytes
CanTimeOut ==
    /\ port = "open"
    /\ wire = <<>> \/ readTriesCount + 1 <= MaxTimeouts

\* the numbers of bytes a read that starts a frame may deliver
CodeReadSizes ==
    (1..Min(Len(wire), 1 + MaxOverRead)) \cup
        (IF wire = <<>> THEN {} ELSE {Min(Len(wire), innerBufLen)})

DataReadSizes == 1..Min(Len(wire), innerBufLen)

(***************************************************************************)
(* readRespCode: one iteration of the loop, and, once a byte is there,     *)
(* the rest of readRespCode and of its caller up to the next transport     *)
(* operation                                                               *)
(***************************************************************************)
ReadCodeExceeded ==
    /\ pc \in {"code1", "code2"}
    /\ ~ReadsAgain
    /\ readTriesCount' = readTriesCount + 1
    /\ FailCycle(ErrTries)
    /\ UNCHANGED <<conn, call, buf, data, wire, sent, trace, other>>


\* ReadCodeFault with the connection closed on a read error
ReadCodeFaultCloses ==
    /\ pc \in {"code1", "code2"}
    /\ ReadsAgain
    /\ CanFault
    /\ readTriesCount' = readTriesCount + 1
    /\ FailCycle(ReadFault)
    /\ open' = FALSE
    /\ port' = IF port = "nil" THEN port ELSE "closed"
    /\ UNCHANGED <<config, call, buf, data, wire, sent, trace, other>>

ReadCodeFault ==
    /\ pc \in {"code1", "code2"}
    /\ ReadsAgain
    /\ CanFault
    /\ readTriesCount' = readTriesCount + 1
    /\ FailCycle(ReadFault)
    /\ UNCHANGED <<conn, call, buf, data, wire, sent, trace, other>>

ReadCodeTimeout ==
    /\ pc \in {"code1", "code2"}
    /\ ReadsAgain
    /\ CanTimeOut
    /\ readTriesCount' = readTriesCount + 1
    /\ UNCHANGED <<conn, pc, call, buf, data, wire, sent, trace, cycle, result, other>>

\* AfterCode with NACK taken for ACK
AfterCodeIgnoreNack(resp, tries) ==
    IF call.op = "Reset"
    THEN /\ Return(Ok(<<>>))
         /\ readTriesCount' = tries
         /\ UNCHANGED cycle
    ELSE IF pc = "code1"
    THEN IF resp # AckResponse /\ resp # NackResponse
         THEN FailCycle(ErrNotAck) /\ readTriesCount' = tries
         ELSE /\ pc' = "data"
              /\ readTriesCount' = 0
              /\ UNCHANGED <<cycle, result>>
    ELSE IF resp # EotResponse
         THEN FailCycle(ErrNotEot) /\ readTriesCount' = tries
         ELSE /\ cycle' = "ok"
              /\ Return(Decode(call.op, data))
              /\ readTriesCount' = tries

\* AfterCode with the second code byte not looked at
AfterCodeIgnoreEot(resp, tries) ==
    IF call.op = "Reset"
    THEN /\ Return(Ok(<<>>))
         /\ readTriesCount' = tries
         /\ UNCHANGED cycle
    ELSE IF pc = "code1"
    THEN IF resp # AckResponse
         THEN FailCycle(ErrNotAck) /\ readTriesCount' = tries
         ELSE /\ pc' = "data"
              /\ readTriesCount' = 0
              /\ UNCHANGED <<cycle, result>>
    ELSE /\ cycle' = "ok"
         /\ Return(Decode(call.op, data))
         /\ readTriesCount' = tries

\* AfterCode with every command returning the way Reset does
AfterCodeAsReset(resp, tries) ==
    /\ Return(Ok(<<>>))
    /\ readTriesCount' = tries
    /\ UNCHANGED cycle

\* what readResponse (or Reset) does with the response type resp that
\* readRespCode returned after tries iterations
AfterCode(resp, tries) ==
    IF call.op = "Reset"
    THEN /\ Return(Ok(<<>>))
         /\ readTriesCount' = tries
         /\ UNCHANGED cycle
    ELSE IF pc = "code1"
    THEN IF resp # AckResponse
         THEN FailCycle(ErrNotAck) /\ readTriesCount' = tries
         ELSE /\ pc' = "data"
              /\ readTriesCount' = 0
              /\ UNCHANGED <<cycle, result>>
    ELSE IF resp # EotResponse
         THEN FailCycle(ErrNotEot) /\ readTriesCount' = tries
         ELSE /\ cycle' = "ok"
              /\ Return(Decode(call.op, data))
              /\ readTriesCount' = tries

ReadCodeByte(n) ==
    /\ pc \in {"code1", "code2"}
    /\ ReadsAgain
    /\ port = "open"
    /\ n \in CodeReadSizes
    \* buf[0] decides; whatever else the read delivered is dropped with buf
    /\ wire' = SliceFrom(wire, n)
    /\ trace' = Append(trace, Event("code", <<wire[1]>>, TRUE))
    /\ AfterCode(RespType(wire[1]), readTriesCount + 1)
    /\ UNCHANGED <<conn, call, buf, data, sent, other>>

(***************************************************************************)
(* readRespData: one iteration of the loop, and, once the tail pattern is  *)
(* there, the validation of the buffer                                     *)
(***************************************************************************)

\* ReadDataExceeded starting the count again instead of giving up
ReadDataExceededRestarts ==
    /\ pc = "data"
    /\ ~ReadsAgain
    /\ readTriesCount' = 0
    /\ UNCHANGED <<conn, pc, call, buf, data, wire, sent, trace, cycle, result, other>>

ReadDataExceeded ==
    /\ pc = "data"
    /\ ~ReadsAgain
    /\ readTriesCount' = readTriesCount + 1
    /\ FailCycle(ErrTries)
    /\ UNCHANGED <<conn, call, buf, data, wire, sent, trace, other>>

ReadDataFault ==
    /\ pc = "data"
    /\ ReadsAgain
    /\ CanFault
    /\ readTriesCount' = readTriesCount + 1
    /\ FailCycle(ReadFault)
    /\ UNCHANGED <<conn, call, buf, data, wire, sent, trace, other>>

ReadDataTimeout ==
    /\ pc = "data"
    /\ ReadsAgain
    /\ CanTimeOut
    \* with nothing appended the exit test gives what it gave before: continue
    /\ ~LastRead(buf)
    /\ readTriesCount' = readTriesCount + 1
    /\ UNCHANGED <<conn, pc, call, buf, data, wire, sent, trace, cycle, result, other>>

\* AfterData with the acknowledgment sent whatever the validation says
AfterDataAckAlways(b) ==
    LET parsed == ParseRespData(b)
    IN  /\ trace' = Append(trace, Event("data", b, parsed.err = ""))
        /\ buf' = <<>>
        /\ data' = parsed.data
        /\ pc' = "ack"
        /\ UNCHANGED <<cycle, result>>

\* the buffer b has the tail pattern: readRespData validates it and
\* readResponse goes on to acknowledge, or returns the error
AfterData(b) ==
    LET parsed == ParseRespData(b)
    IN  /\ trace' = Append(trace, Event("data", b, parsed.err = ""))
        /\ buf' = <<>>
        /\ IF parsed.err = ""
           THEN /\ data' = parsed.data
                /\ pc' = "ack"
                /\ UNCHANGED <<cycle, result>>
           ELSE /\ data' = data
                /\ FailCycle(parsed.err)

ReadDataBytes(n) ==
    /\ pc = "data"
    /\ ReadsAgain
    /\ port = "open"
    /\ n \in DataReadSizes
    /\ readTriesCount' = readTriesCount + 1
    /\ wire' = SliceFrom(wire, n)
    /\ LET b == buf \o SubSeq(wire, 1, n)
       IN  IF LastRead(b)
           THEN AfterData(b)
           ELSE /\ buf' = b
                /\ UNCHANGED <<pc, data, trace, cycle, result>>
    /\ UNCHANGED <<conn, call, sent, other>>

(***************************************************************************)
(* Ack: the write of 0x06, its result dropped; the device answers with     *)
(* its closing code byte, or with nothing                                  *)
(***************************************************************************)
Ack ==
    /\ pc = "ack"
    /\ \E wok \in BOOLEAN :
        trace' = Append(trace, Event("write", <<6>>, wok))
    /\ \E closing \in Closings(trace[Len(trace)].bytes) : wire' = wire \o closing
    /\ pc' = "code2"
    /\ readTriesCount' = 0
    /\ UNCHANGED <<conn, call, buf, data, sent, cycle, result, other>>

(***************************************************************************)
(* The connection: Open and Close                                          *)
(***************************************************************************)
Lifecycle(op) == [op |-> op, count |-> 0, item |-> 0, text |-> <<>>]

Open ==
    /\ pc = "idle"
    /\ call' = Lifecycle("Open")
    /\ IF open
       THEN Return(Err(ErrAlreadyOpened)) /\ UNCHANGED conn
       ELSE IF config = "nil"
       \* serial.OpenPort(nil)
       THEN Return(Err(Panic)) /\ UNCHANGED conn
       ELSE \/ Return(Err(ErrIo)) /\ UNCHANGED conn
            \/ /\ port' = "open"
               /\ open' = TRUE
               /\ config' = config
               /\ Return(Ok(<<>>))
    /\ UNCHANGED <<readTriesCount, buf, data, wire, sent, trace, cycle, other>>


\* Close leaving the connection open when the transport close fails
CloseStaysOpenOnError ==
    /\ pc = "idle"
    /\ call' = Lifecycle("Close")
    /\ IF port = "nil" \/ ~open
       THEN Return(Err(ErrNotOpened)) /\ UNCHANGED conn
       ELSE \E e \in {"", ErrIo} :
            /\ port' = IF e = "" THEN "closed" ELSE port
            /\ open' = (e # "")
            /\ config' = config
            /\ Return([err |-> e, val |-> <<>>])
    /\ UNCHANGED <<readTriesCount, buf, data, wire, sent, trace, cycle, other>>

Close ==
    /\ pc = "idle"
    /\ call' = Lifecycle("Close")
    /\ IF port = "nil" \/ ~open
       THEN Return(Err(ErrNotOpened)) /\ UNCHANGED conn
       ELSE /\ port' = "closed"
            /\ open' = FALSE
            /\ config' = config
            /\ \E e \in {"", ErrIo} : Return([err |-> e, val |-> <<>>])
    /\ UNCHANGED <<readTriesCount, buf, data, wire, sent, trace, cycle, other>>

\* the caller takes the result; the next call starts on a quiet line
Returned ==
    /\ pc = "done"
    \* a panic ends the program
    /\ result.err # Panic
    /\ pc' = "idle"
    /\ call' = NoCall
    /\ readTriesCount' = 0
    /\ buf' = <<>>
    /\ data' = <<>>
    /\ wire' = <<>>
    /\ sent' = <<>>
    /\ trace' = <<>>
    /\ cycle' = "none"
    /\ result' = NoResult
    /\ UNCHANGED <<conn, other>>

Next ==
    \/ \E c \in Calls : Invoke(c)
    \/ ReadCodeExceeded
    \/ ReadCodeFault
    \/ ReadCodeTimeout
    \/ \E n \in 1..innerBufLen : ReadCodeByte(n)
    \/ ReadDataExceeded
    \/ ReadDataFault
    \/ ReadDataTimeout
    \/ \E n \in 1..innerBufLen : ReadDataBytes(n)
    \/ Ack
    \/ Open
    \/ Close
    \/ Returned

Spec == Init /\ [][Next]_vars


(***************************************************************************)
(* readRespData against a device that never completes a frame: it is       *)
(* silent, or it sends the byte 0x20 for as long as the driver reads, one  *)
(* byte to a read.  The start is a Status call whose request was written   *)
(* and whose ACK was read.                                                 *)
(***************************************************************************)
\* more bytes than the loop can take one at a time
Babble == [i \in 1..maxReadCount |-> 32]

StatusCall == [op |-> "Status", count |-> 0, item |-> 0, text |-> <<>>]

InitData ==
    /\ config = "set"
    /\ open = TRUE
    /\ port = "open"
    /\ pc = "data"
    /\ call = StatusCall
    /\ readTriesCount = 0
    /\ buf = <<>>
    /\ data = <<>>
    /\ wire \in {<<>>, Babble}
    /\ sent = <<[bytes |-> RequestFrame(CommandCode("Status"), <<>>), ok |-> TRUE]>>
    /\ trace = <<Event("code", <<AckResponse>>, TRUE)>>
    /\ cycle = "running"
    /\ result = NoResult
    /\ other = IdleLocals

NextData ==
    \/ ReadDataExceeded
    \/ ReadDataFault
    \/ ReadDataTimeout
    \/ ReadDataBytes(1)
    \/ Returned

SpecData == InitData /\ [][NextData]_vars


(***************************************************************************)
(* Two invocations on one connection.  The variables pc .. result are the  *)
(* locals of the invocation that runs now, other those of the one that     *)
(* does not; the connection and the line are shared.  The device answers   *)
(* every request and every acknowledgment properly and in order, no write  *)
(* fails, a read waits for bytes and a code byte comes in a read of its    *)
(* own.                                                                    *)
(***************************************************************************)
Locals ==
    [pc |-> pc, call |-> call, readTriesCount |-> readTriesCount, buf |-> buf,
     data |-> data, sent |-> sent, trace |-> trace, cycle |-> cycle, result |-> result]

\* the other invocation runs from here on
Switch ==
    /\ other.pc # "done"
    /\ other' = Locals
    /\ pc' = other.pc
    /\ call' = other.call
    /\ readTriesCount' = other.readTriesCount
    /\ buf' = other.buf
    /\ data' = other.data
    /\ sent' = other.sent
    /\ trace' = other.trace
    /\ cycle' = other.cycle
    /\ result' = other.result
    /\ UNCHANGED <<conn, wire>>

ConcCalls ==
    {[op |-> "Dispense", count |-> 1, item |-> 0, text |-> <<>>],
     [op |-> "ReadData", count |-> 0, item |-> Items[1], text |-> Texts[1]]}

\* the frame the device sends in answer to the call c
ProperFrame(c) ==
    DeviceFrame(GoodHeader,
                <<CommandCode(c.op)>> \o
                    (IF c.op = "ReadData" THEN <<48, 49, 50>> ELSE <<32, 33, 34>>),
                TRUE)

InitConc ==
    /\ Quiet
    /\ other = IdleLocals
    /\ config = "set"
    /\ open = TRUE
    /\ port = "open"

NextConc ==
    \/ \E c \in ConcCalls :
        /\ Invoke(c)
        /\ sent'[1].ok
        /\ wire' = wire \o <<AckResponse>> \o ProperFrame(c)
    \/ ReadCodeByte(1)
    \/ \E n \in 1..innerBufLen : ReadDataBytes(n)
    \/ /\ Ack
       /\ trace'[Len(trace')].ok
       /\ wire' = wire \o <<EotResponse>>
    \/ Switch

SpecConc == InitConc /\ [][NextConc]_vars

(***************************************************************************)
(* Properties                                                              *)
(***************************************************************************)
CodeEvent(b) == Event("code", <<b>>, TRUE)

IsAckWrite(e) == e.ev = "write" /\ e.bytes = <<6>>

\* the steps of the response cycle so far are exactly: ACK read, data frame
\* read and parsed, 0x06 written, EOT read
FullHandshake ==
    /\ Len(trace) = 4
    /\ trace[1] = CodeEvent(AckResponse)
    /\ trace[2].ev = "data" /\ trace[2].ok
    /\ IsAckWrite(trace[3])
    /\ trace[4] = CodeEvent(EotResponse)

\* C1: whenever readResponse has returned a payload without error, the call
\* has made, in this order and with nothing else in between, a code read
\* that gave ACK, a data-frame read that passed parsing, one write of 0x06
\* and a code read that gave EOT; and 0x06 is only ever written as the third
\* step, after an ACK and a data frame that parsed.
C1_HandshakeOrder ==
    /\ cycle = "ok" => FullHandshake
    /\ \A i \in 1..Len(trace) :
          trace[i].ev = "write" =>
              /\ i = 3
              /\ IsAckWrite(trace[i])
              /\ trace[1] = CodeEvent(AckResponse)
              /\ trace[2].ev = "data" /\ trace[2].ok

C1_Witness ==
    /\ pc = "done"
    /\ cycle = "ok"
    /\ call.op = "Status"
    /\ result.err = ""

\* the first code byte of a full response cycle was NACK
NackFirst ==
    /\ call.op \in CycleOps
    /\ Len(trace) >= 1
    /\ trace[1] = CodeEvent(NackResponse)

\* C2: a full response cycle whose first code byte is NACK has failed with
\* "Response not ACK" as soon as that byte is read, and the only step the
\* call takes from there is to hand that error to the caller: no further
\* read (or write) on the transport.
C2_NackFailsFast ==
    [][NackFirst =>
          /\ pc = "done"
          /\ cycle = ErrNotAck
          /\ result = Err(ErrNotAck)
          /\ trace = <<CodeEvent(NackResponse)>>
          /\ pc' = "idle"]_vars

C2_Witness ==
    /\ NackFirst
    /\ pc = "done"
    /\ result.err = ErrNotAck
    \* bytes the device sent after the NACK are still unread
    /\ wire # <<>>

\* ACK, a data frame that parsed, the acknowledgment, then a second code
\* byte that is not EOT
NonEotSecond ==
    /\ Len(trace) = 4
    /\ trace[1] = CodeEvent(AckResponse)
    /\ trace[2].ev = "data" /\ trace[2].ok
    /\ trace[4].ev = "code"
    /\ trace[4].bytes # <<EotResponse>>

\* C3: a full response cycle that got ACK and a valid data frame but then a
\* second code byte other than EOT fails with "Response not EOT" and
\* returns no payload.
C3_NonEotFails ==
    NonEotSecond =>
        /\ pc = "done"
        /\ cycle = ErrNotEot
        /\ result = Err(ErrNotEot)

C3_Witness ==
    /\ NonEotSecond
    /\ trace[4].bytes = <<AckResponse>>
    /\ data # <<>>
    /\ result.err = ErrNotEot

\* C4: the loop counter of a read loop never passes maxReadCount, a code
\* read loop that is still running has made fewer than maxReadCount reads,
\* every iteration that stays in the loop counts one up, and a call whose
\* loop reached maxReadCount has returned "Reads tries exceeded": with a
\* device that never produces a byte readRespCode gives up after
\* maxReadCount - 1 reads.
C4_RetryExhausted ==
    /\ [](/\ readTriesCount <= maxReadCount
          /\ pc \in {"code1", "code2"} => readTriesCount < maxReadCount
          /\ (pc = "done" /\ readTriesCount = maxReadCount) => result = Err(ErrTries))
    /\ [][(pc \in {"code1", "code2"} /\ pc' = pc) =>
             readTriesCount' = readTriesCount + 1]_vars

\* the device never answered the request and readRespCode gave up
C4_Witness ==
    /\ pc = "done"
    /\ sent # <<>>
    /\ trace = <<>>
    /\ wire = <<>>
    /\ readTriesCount = maxReadCount
    /\ result = Err(ErrTries)

\* C5: a command invoked on a connection that is not open makes no
\* transport read and no transport write, and what it returns is an error.
\* (ReadData drops sendRequest's error and reads from the port.)
C5_ClosedFailsFast ==
    (call.op \in CommandOps /\ ~open) =>
        /\ sent = <<>>
        /\ trace = <<>>
        /\ readTriesCount = 0
        /\ pc = "done" => result.err \notin {"", "-"}

\* the request was written, in one write that succeeded
RequestWritten == Len(sent) = 1 /\ sent[1].ok

\* C6 as stated: a command that returned without error has written its
\* request and been through the full handshake.
C6_SuccessNeedsFullCycle ==
    (pc = "done" /\ call.op \in CommandOps /\ result.err = "") =>
        /\ Len(sent) = 1
        /\ FullHandshake

\* C6, amended: every command other than Reset that returned without error
\* has been through the full handshake; Reset reads one code byte after its
\* request and returns without error whatever that byte is.
C6_SuccessNeedsFullCycleButReset ==
    /\ (pc = "done" /\ call.op \in CycleOps /\ result.err = "") =>
          /\ Len(sent) = 1
          /\ cycle = "ok"
          /\ FullHandshake
    /\ (call.op = "Reset" /\ trace # <<>>) =>
          /\ RequestWritten
          /\ Len(trace) = 1
          /\ trace[1].ev = "code"
          /\ pc = "done"
          /\ result = Ok(<<>>)
    /\ (pc = "done" /\ call.op = "Reset" /\ result.err = "") => Len(trace) = 1

\* Reset reports success after a NACK
C6_Witness ==
    /\ pc = "done"
    /\ call.op = "Reset"
    /\ trace = <<CodeEvent(NackResponse)>>
    /\ result.err = ""

\* C7: sendRequest on an open connection makes exactly one transport
\* write, and the bytes written are 04 30 02, the command code, the data,
\* 03 and the XOR of all those bytes; Dispense(1) writes 04 30 02 42 21 03 56.
C7_RequestFrame ==
    /\ Len(sent) <= 1
    /\ (call.op \in CommandOps /\ open) => Len(sent) = 1
    /\ sent # <<>> =>
          LET w == sent[1].bytes
              P == RequestData(call)
              n == Len(w)
          IN  /\ n = Len(P) + 6
              /\ SubSeq(w, 1, 4) = <<4, 48, 2, CommandCode(call.op)>>
              /\ SubSeq(w, 5, n - 2) = P
              /\ w[n - 1] = 3
              /\ w[n] = XorOf(SubSeq(w, 1, n - 1))
    /\ (sent # <<>> /\ call.op = "Dispense" /\ call.count = 1) =>
          sent[1].bytes = <<4, 48, 2, 66, 33, 3, 86>>

C7_Witness ==
    /\ call.op = "Dispense"
    /\ call.count = 1
    /\ sent # <<>>
    /\ sent[1].bytes = <<4, 48, 2, 66, 33, 3, 86>>

\* b is 01 30 02, some text, 03 and the correct checksum
WellFormedFrame(b) ==
    /\ Len(b) >= 5
    /\ SubSeq(b, 1, 3) = <<1, 48, 2>>
    /\ b[Len(b) - 1] = 3
    /\ b[Len(b)] = XorOf(SubSeq(b, 1, Len(b) - 1))

\* the bytes of b strictly between TextStart (offset 2) and TextEnd
TextOf(b) == SubSeq(b, 4, Len(b) - 2)

\* readRespData has accumulated a buffer and validated it
Accumulated == Len(trace) >= 2 /\ trace[2].ev = "data"

\* C8 as stated: what parsing returns for a well-formed frame with a
\* correct checksum is exactly the bytes between TextStart and TextEnd.
C8_ParseReturnsText ==
    (Accumulated /\ WellFormedFrame(trace[2].bytes) /\ trace[2].ok) =>
        data = TextOf(trace[2].bytes)

\* C8, amended: parsing a well-formed frame with a correct checksum returns
\* the bytes between TextStart and TextEnd without the first of them (the
\* byte at offset 3, the command echo); when there is no byte between the
\* markers the slice is out of range and parsing panics.
C8_ParseSkipsEcho ==
    (Accumulated /\ WellFormedFrame(trace[2].bytes)) =>
        IF TextOf(trace[2].bytes) = <<>>
        THEN ~trace[2].ok /\ pc = "done" /\ result = Err(Panic)
        ELSE trace[2].ok /\ data = Tail(TextOf(trace[2].bytes))

C8_Witness ==
    /\ Accumulated
    /\ trace[2].bytes = <<1, 48, 2, 66, 32, 33, 34, 3, 81>>
    /\ trace[2].ok
    /\ data = <<32, 33, 34>>

\* a Dispense call whose handshake succeeded
DispenseDone ==
    /\ call.op = "Dispense"
    /\ pc = "done"
    /\ cycle = "ok"

\* C9 as stated: Dispense, after a handshake whose frame has the three bytes
\* p0 p1 p2 between TextStart and TextEnd, returns (p0, p1 - 0x20, p2 - 0x20).
C9_DispenseDecodesText ==
    (DispenseDone /\ Len(TextOf(trace[2].bytes)) = 3) =>
        LET T == TextOf(trace[2].bytes)
        IN  result = Ok(<<T[1], SubByte(T[2], 32), SubByte(T[3], 32)>>)

\* C9, amended: Dispense, after a handshake whose frame has c p0 p1 p2 (and
\* possibly more) between TextStart and TextEnd, returns
\* (p0, p1 - 0x20, p2 - 0x20), c being skipped; 42 20 21 22 gives (0x20, 1, 2).
C9_DispenseDecodesAfterEcho ==
    (DispenseDone /\ Len(TextOf(trace[2].bytes)) >= 4) =>
        LET T == TextOf(trace[2].bytes)
        IN  /\ result = Ok(<<T[2], SubByte(T[3], 32), SubByte(T[4], 32)>>)
            /\ T = <<66, 32, 33, 34>> => result = Ok(<<32, 1, 2>>)

C9_Witness ==
    /\ DispenseDone
    /\ TextOf(trace[2].bytes) = <<66, 32, 33, 34>>
    /\ result = Ok(<<32, 1, 2>>)

\* the accumulated buffer does not start with 01 30
BadStart(b) == b[1] # 1 \/ b[2] # 48

\* C10: an accumulated buffer that does not start with 01 30 fails with
\* "Response format invalid", whatever its checksum byte, and no payload is
\* returned.
C10_BadStartFormatError ==
    (Accumulated /\ BadStart(trace[2].bytes)) =>
        /\ ~trace[2].ok
        /\ pc = "done"
        /\ cycle = ErrFormat
        /\ result = Err(ErrFormat)

\* a buffer with a wrong first byte and a correct checksum
C10_Witness ==
    /\ Accumulated
    /\ trace[2].bytes[1] # 1
    /\ Len(trace[2].bytes) = 9
    /\ trace[2].bytes[9] = XorOf(SubSeq(trace[2].bytes, 1, 8))
    /\ result = Err(ErrFormat)

\* the last byte of b is not the XOR of the bytes before it
BadChecksum(b) == b[Len(b)] # XorOf(SubSeq(b, 1, Len(b) - 1))

\* C11: an accumulated buffer that starts with 01 30 and whose last byte is
\* not the XOR of the bytes before it fails with "Response verification
\* failed" and returns no payload; the checksum is tested before the
\* markers, so this is the error also when the byte at offset 2 is not
\* TextStart.
C11_ChecksumBeforeMarkers ==
    (Accumulated /\ ~BadStart(trace[2].bytes) /\ BadChecksum(trace[2].bytes)) =>
        /\ ~trace[2].ok
        /\ pc = "done"
        /\ cycle = ErrChecksum
        /\ result = Err(ErrChecksum)

\* a buffer 01 30 .. with a wrong checksum and no TextStart at offset 2
C11_Witness ==
    /\ Accumulated
    /\ ~BadStart(trace[2].bytes)
    /\ BadChecksum(trace[2].bytes)
    /\ trace[2].bytes[3] # TextStart
    /\ result = Err(ErrChecksum)

\* the write of the request failed
RequestWriteFailed == sent # <<>> /\ ~sent[1].ok

\* C13 as stated: a failed write of the 0x06 acknowledgment is dropped (the
\* cycle reads the second code byte and, on EOT, the command returns its
\* payload), and every other transport error is returned to the caller: a
\* command whose request write failed has returned that error without
\* reading.  (ReadData drops the error of its request write.)
C13_OnlyAckErrorDropped ==
    /\ (/\ Len(trace) = 4
        /\ IsAckWrite(trace[3])
        /\ ~trace[3].ok
        /\ trace[4] = CodeEvent(EotResponse)) =>
            /\ cycle = "ok"
            /\ result = Decode(call.op, data)
    /\ (call.op \in CommandOps /\ RequestWriteFailed) =>
            /\ pc = "done"
            /\ result = Err(ErrIo)
            /\ readTriesCount = 0
            /\ trace = <<>>

\* C14: no step of a command changes the open flag, the port handle or the
\* configuration, whatever the command returns; these change only in a step
\* of Open or of Close.
C14_CommandsKeepConnection ==
    [][(conn' # conn) => (pc = "idle" /\ call'.op \in {"Open", "Close"})]_vars

\* a command that failed on an open connection, which is still open
C14_Witness ==
    /\ pc = "done"
    /\ call.op \in CommandOps
    /\ result = Err(ErrChecksum)
    /\ open
    /\ port = "open"

\* C15 as stated: the step of a command that fails (the request send, a
\* read, the retry ceiling, a code byte that is not the expected one, the
\* frame validation) takes the call directly to its failed outcome, with
\* that step's error.  (ReadData goes on to readResponse after a failed
\* request send.)
C15_FailedStepEndsCall ==
    [][/\ (/\ pc = "idle"
           /\ call'.op \in CommandOps
           /\ ~open \/ (sent' # <<>> /\ ~sent'[1].ok)) =>
               /\ pc' = "done"
               /\ result' = Err(IF ~open THEN ErrClosed ELSE ErrIo)
       /\ (cycle' # cycle /\ cycle' \notin {"none", "running", "ok"}) =>
               /\ pc' = "done"
               /\ result' = Err(cycle')
       /\ pc = "done" => pc' = "idle"]_vars

\* C16 as stated: when readRespData stops accumulating, and what it has
\* accumulated together with what is still unread is one valid frame, the
\* whole frame is in the buffer.  (The exit test runs after every read and
\* looks at the last two bytes it has: a read that ends one byte after a
\* payload byte 0x03 ends the accumulation.)
C16_StopsOnCompleteFrame ==
    (/\ Len(trace) = 2
     /\ trace[2].ev = "data"
     /\ WellFormedFrame(trace[2].bytes \o wire)) =>
        wire = <<>>

\* C18 as stated: a read of readRespCode that yields the code byte takes
\* exactly that byte from the stream.  (The read takes up to 256 bytes, and
\* what follows the first byte is dropped with the local buffer.)
C18_CodeReadTakesOneByte ==
    [][(pc \in {"code1", "code2"} /\ Len(trace') = Len(trace) + 1) =>
            wire' = Tail(wire)]_vars

\* C19 as stated: on a live port every command ends in a result or an error,
\* never in an index or a slice out of range.  (An empty text between
\* TextStart and TextEnd, or a payload shorter than the decoding reads.)
C19_NoOutOfRange ==
    (call.op \in CommandOps /\ port = "open") => result.err # Panic

\* C20: the open flag is true exactly while the port handle is live (opened
\* by NewConnection or Open and not closed since).  Open on an open
\* connection returns "port already opened" and changes nothing; Open on a
\* closed one opens it or, failing, changes nothing; Close on a connection
\* that is not open returns "port not opened" and changes nothing; Close on
\* an open one leaves it closed whether the transport close failed or not; a
\* command on an open connection, reopened or not, writes its request.
C20_Lifecycle ==
    /\ [](open <=> port = "open")
    /\ [][/\ (pc = "idle" /\ call'.op = "Open" /\ open) =>
                (result' = Err(ErrAlreadyOpened) /\ UNCHANGED conn)
          /\ (pc = "idle" /\ call'.op = "Open" /\ ~open) =>
                IF result'.err = ""
                THEN open' /\ port' = "open" /\ config' = config
                ELSE UNCHANGED conn
          /\ (pc = "idle" /\ call'.op = "Close" /\ ~open) =>
                (result' = Err(ErrNotOpened) /\ UNCHANGED conn)
          /\ (pc = "idle" /\ call'.op = "Close" /\ open) =>
                (~open' /\ port' = "closed" /\ result'.err \in {"", ErrIo})
          /\ (pc = "idle" /\ call'.op \in CommandOps /\ open) =>
                (Len(sent') = 1 /\ pc' # "idle")
          /\ (pc # "idle" \/ call'.op \notin {"Open", "Close"}) =>
                open' = open]_vars

\* Open succeeded: the connection had been closed and is open again
C20_Witness ==
    /\ pc = "done"
    /\ call.op = "Open"
    /\ result = Ok(<<>>)
    /\ open
    /\ port = "open"

\* C17: readRespData ends whatever the device does, when the tail pattern
\* never shows (the device is silent, or sends bytes that never end with
\* TextEnd and one more byte).  Every iteration of the loop counts, the count
\* never passes maxReadCount and no read is made once it is there; the
\* function returns "Reads tries exceeded" at the ceiling, or the error of a
\* read before it, and never a payload.
C17_ReadDataEnds ==
    /\ [](/\ readTriesCount <= maxReadCount
          /\ pc = "data" => (readTriesCount < maxReadCount /\ Len(buf) <= readTriesCount)
          /\ pc = "done" =>
                /\ result \in {Err(ErrTries), Err(ErrIo)}
                /\ cycle = result.err
                /\ result = Err(ErrTries) <=> readTriesCount = maxReadCount)
    /\ [][pc = "data" =>
            /\ readTriesCount' = readTriesCount + 1
            /\ pc' \in {"data", "done"}
            /\ Len(wire') >= Len(wire) - innerBufLen]_vars

\* the device was still sending when the loop gave up after 1049 reads
C17_Witness ==
    /\ pc = "done"
    /\ result = Err(ErrTries)
    /\ Len(trace) = 1
    /\ wire # <<>>
    /\ Len(buf) = maxReadCount - 1

MidCycle == {"code1", "data", "ack", "code2"}

\* C12: nothing serializes two invocations on one connection.  While one is
\* anywhere in its response cycle the other can be run and can send its
\* request, and an invocation that waits for a code byte takes the byte that
\* is first on the line, whichever request it answers.
C12_NotSerialized ==
    /\ (other.pc # "done") => ENABLED Switch
    /\ (pc = "idle" /\ other.pc \in MidCycle) =>
            \A c \in ConcCalls : ENABLED Invoke(c)
    /\ (pc \in {"code1", "code2"} /\ wire # <<>>) => ENABLED ReadCodeByte(1)

\* both invocations have returned; Dispense ran the whole handshake on the
\* frame the device sent in answer to ReadData and returned a triple decoded
\* from it, and ReadData returned an error for a device that answered it
\* properly
C12_Witness ==
    /\ pc = "done"
    /\ other.pc = "done"
    /\ call.op = "Dispense"
    /\ other.call.op = "ReadData"
    /\ FullHandshake
    /\ trace[2].bytes = ProperFrame(other.call)
    /\ result = Ok(<<48, 17, 18>>)
    /\ other.result.err \notin {"", "-"}

====
